---- MODULE Spec2Model ----
(***************************************************************************)
(* gechtest (include/gechtest.hpp): one test case `test_reg` declared by   *)
(* TEST, run by TEST_MAIN and torn down by ~test at process exit.          *)
(*                                                                         *)
(* The handlers of class gech::test are written as operators over a store  *)
(* record (the object's fields plus the output produced so far by the      *)
(* running handler); every action applies one handler, or one macro of the *)
(* header, as a whole.  Statements of the case body and of the registered  *)
(* sub-functions are user code: each step picks one statement.             *)
(*                                                                         *)
(* Values the code reads without having initialised them are kept as       *)
(* "Indet" and resolved nondeterministically where they are read.          *)
(***************************************************************************)
EXTENDS Integers, Sequences, FiniteSets, TLC

\* ------------------------------------------------------------------ bounds
MaxOps == 4          \* statements executed by one run (body + sub-functions + registrations)
MaxVal == 1          \* assertion operands range over 0..MaxVal
MaxDur == 1          \* measured durations range over 0..MaxDur

Vals   == 0..MaxVal
Durs   == 0..MaxDur
Funcs  == {"f"}      \* registrable sub-function pointers (non-null)

\* ------------------------------------------------------------------ enums
test_types   == {"Eq", "UnEq", "Gt", "Lt", "GEq", "LEq", "MemLeak"}
Comparisons  == test_types \ {"MemLeak"}
test_results == {"Error", "Success", "Critical"}

RcMsg == "(RC < 0) Deallocating not allocated value"

VARIABLES
    pc,         \* where the process is: Declared, Body, Sub, Ran, Completed, Aborted, Crashed
    rc,         \* test::rc
    errors,     \* test::errors
    infos,      \* test::infos, a sequence of test_log_node
    cap,        \* capacity of the vector infos
    idx,        \* run_tests: position of the range-for over infos
    loopEnd,    \* run_tests: the end iterator the range-for cached
    stale,      \* run_tests: infos was reallocated under the range-for
    summaries,  \* the Error/s values printed by summary(), in order
    nAcq, nRel, \* ALLOC / DEALLOC macros executed
    nAssert,    \* calls of assert with one of the six comparison kinds
    nFail,      \* those whose predicate did not hold
    nReg,       \* calls of test_function
    nDelete,    \* delete statements executed by DEALLOC
    called,     \* run_tests: the entries whose func was called and has returned, with the time measured
    ops,        \* statements executed so far
    call,       \* SpecAsserts: the arguments of the call of assert just made; NoCall otherwise
    lastOp      \* the most recent operation: its name, rc before it, the time it measured, what it did in order

vars == <<pc, rc, errors, infos, cap, idx, loopEnd, stale, summaries,
          nAcq, nRel, nAssert, nFail, nReg, nDelete, called, ops, call, lastOp>>

\* ------------------------------------------------------------------ test_log_node
\* put_log and test_function default-initialise the node: ms_took = 0, the
\* fields they do not assign stay indeterminate.
test_log_node == [ms_took |-> 0, result |-> "Indet", data |-> "", func |-> "Indet"]

back(s) == s[Len(s)]

Range(f) == {f[i] : i \in DOMAIN f}

\* std::vector growth (libstdc++): a push_back into a full vector doubles it.
grow(c) == IF c = 0 THEN 1 ELSE 2 * c

\* The store a handler works on.
Store == [rc |-> rc, errors |-> errors, infos |-> infos, cap |-> cap,
          summaries |-> summaries, nDelete |-> nDelete,
          realloc |-> FALSE, halted |-> FALSE, ev |-> << >>]

emit(s, e) == [s EXCEPT !.ev = Append(@, e)]

\* push_back writing over the last element of a non-empty vector
push_back_overwrite(s, node) ==
    IF s.infos = << >> THEN [s EXCEPT !.infos = <<node>>, !.cap = 1, !.realloc = TRUE]
    ELSE [s EXCEPT !.infos[Len(s.infos)] = node]

push_back(s, node) ==
    [s EXCEPT !.infos   = Append(@, node),
              !.cap     = IF Len(s.infos) = s.cap THEN grow(s.cap) ELSE s.cap,
              !.realloc = @ \/ (Len(s.infos) = s.cap)]

\* test::summary
summary(s) == emit([s EXCEPT !.summaries = Append(@, s.errors)], "[SUMMARY]")

\* test::test_function
test_function(s, f) == push_back(s, [test_log_node EXCEPT !.func = f])

\* test::put_log
put_log(s, result, message) ==
    emit(push_back(s, [test_log_node EXCEPT !.result = result, !.data = message]),
         "put_log")

\* draw_case with the tally also raised for a passing outcome
draw_case_countsAll(s, node) ==
    IF node.result = "Critical" THEN emit(s, "[CRITICAL]")
    ELSE IF node.result = "Success" THEN emit([s EXCEPT !.errors = @ + 1], "[SUCCESS]")
    ELSE emit([s EXCEPT !.errors = @ + 1], "[FAILED]")

\* draw_case with a failed outcome ending the process
draw_case_fatal(s, node) ==
    IF node.result = "Critical" THEN emit(s, "[CRITICAL]")
    ELSE IF node.result = "Success" THEN emit(s, "[SUCCESS]")
    ELSE emit([s EXCEPT !.errors = @ + 1, !.halted = TRUE], "[FAILED]")

\* test::draw_case
draw_case(s, node) ==
    IF node.result = "Critical" THEN emit(s, "[CRITICAL]")
    ELSE IF node.result = "Success" THEN emit(s, "[SUCCESS]")
    ELSE emit([s EXCEPT !.errors = @ + 1], "[FAILED]")

\* test::put: draws infos.back(), whatever message it was handed
put(s) == emit(draw_case(s, back(s.infos)), "line")

\* the comparisons with > and >= exchanged
Holds_swapped(type, val, val2) ==
    CASE type = "Eq"   -> val = val2
      [] type = "UnEq" -> val # val2
      [] type = "Gt"   -> val >= val2
      [] type = "Lt"   -> val < val2
      [] type = "GEq"  -> val > val2
      [] type = "LEq"  -> val <= val2

\* the comparison each case of the switch makes
Holds(type, val, val2) ==
    CASE type = "Eq"   -> val = val2
      [] type = "UnEq" -> val # val2
      [] type = "Gt"   -> val > val2
      [] type = "Lt"   -> val < val2
      [] type = "GEq"  -> val >= val2
      [] type = "LEq"  -> val <= val2

FailMsg(type) ==
    CASE type = "Eq"   -> "Given values are not equal, expected equal"
      [] type = "UnEq" -> "Given values are equal, expected not equal"
      [] type = "Gt"   -> "Given values are not greater, expected greater"
      [] type = "Lt"   -> "Given values are greater, expected not greater"
      [] type = "GEq"  -> "Given values are not greater or equal, expected greater or equal"
      [] type = "LEq"  -> "Given values are greater or equal, expected not greater or equal"

\* assert with the failing LEq case running on into one more record and draw
assert_fallthrough(s, type, val, val2) ==
    IF type \notin Comparisons THEN s
    ELSE IF Holds(type, val, val2) THEN put(put_log(s, "Success", "OK"))
    ELSE IF type = "LEq"
         THEN put(put_log(put(put_log(s, "Error", FailMsg(type))), "Error", FailMsg("Eq")))
         ELSE put(put_log(s, "Error", FailMsg(type)))

\* assert reporting a failure only while the tally is still 0
assert_firstFailureOnly(s, type, val, val2) ==
    IF type \notin Comparisons THEN s
    ELSE IF Holds(type, val, val2) \/ s.errors > 0 THEN put(put_log(s, "Success", "OK"))
    ELSE put(put_log(s, "Error", FailMsg(type)))

\* assert with a default case that records a failure for any other kind
assert_defaultFails(s, type, val, val2) ==
    IF type \notin Comparisons THEN put(put_log(s, "Error", "Unknown test type"))
    ELSE IF Holds(type, val, val2) THEN put(put_log(s, "Success", "OK"))
    ELSE put(put_log(s, "Error", FailMsg(type)))

\* test::assert: the switch has no case for MemLeak
assert(s, type, val, val2) ==
    IF type \notin Comparisons THEN s
    ELSE IF Holds(type, val, val2) THEN put(put_log(s, "Success", "OK"))
    ELSE put(put_log(s, "Error", FailMsg(type)))

\* the guard with its bound off by one, either way
GuardFires_late(r) == r < -1
GuardFires_early(r) == r <= 0

\* the guard taking any unbalanced counter for a violation
GuardFires_unbalanced(r) == r # 0

\* the condition of test::assert_rc
GuardFires(r) == r < 0

\* test::assert_rc
assert_rc(s) ==
    IF GuardFires(s.rc)
    THEN LET s1 == put(put_log(emit(s, "check"), "Critical", RcMsg))
             s2 == summary(s1)
         IN  emit([s2 EXCEPT !.halted = TRUE], "abort")
    ELSE emit(s, "check")

\* ALLOC counting the wrong way
ALLOC_decrements(s) ==
    LET s1 == assert_rc(s)
    IN  IF s1.halted THEN s1
        ELSE emit(emit([s1 EXCEPT !.rc = @ - 1], "inc"), "new")

\* the ALLOC macro
ALLOC(s) ==
    LET s1 == assert_rc(s)
    IN  IF s1.halted THEN s1
        ELSE emit(emit([s1 EXCEPT !.rc = @ + 1], "inc"), "new")

\* DEALLOC without its guard check
DEALLOC_unchecked(s) ==
    emit(emit([s EXCEPT !.rc = @ - 1], "dec"), "delete")

\* DEALLOC with the guard check moved before the decrement
DEALLOC_checkFirst(s) ==
    LET s1 == assert_rc(s)
    IN  IF s1.halted THEN s1
        ELSE emit(emit([s1 EXCEPT !.rc = @ - 1], "dec"), "delete")

\* DEALLOC whose delete runs whatever the guard did
DEALLOC_deleteAnyway(s) ==
    LET s1 == assert_rc(emit([s EXCEPT !.rc = @ - 1], "dec"))
    IN  emit([s1 EXCEPT !.nDelete = @ + 1], "delete")

\* the DEALLOC macro
DEALLOC(s) ==
    LET s1 == assert_rc(emit([s EXCEPT !.rc = @ - 1], "dec"))
    IN  IF s1.halted THEN s1
        ELSE emit([s1 EXCEPT !.nDelete = @ + 1], "delete")

\* ~test printing the summary before the final check
destructor_summaryFirst(s) == assert_rc(summary(s))

\* test::~test
destructor(s) ==
    LET s1 == assert_rc(s)
    IN  IF s1.halted THEN s1 ELSE summary(s1)

\* ------------------------------------------------------------------ actions
Op(name, s) == [name |-> name, rc0 |-> rc, d |-> 0, ev |-> s.ev]

\* The fields of the object after a handler, and where the process is.
Commit(s, next) ==
    /\ rc' = s.rc
    /\ errors' = s.errors
    /\ infos' = s.infos
    /\ cap' = s.cap
    /\ summaries' = s.summaries
    /\ nDelete' = s.nDelete
    /\ stale' = (stale \/ (pc = "Sub" /\ s.realloc))
    /\ pc' = IF s.halted THEN "Aborted" ELSE next

NoCall == [type |-> "-", a |-> 0, b |-> 0]

Init ==
    /\ pc = "Declared"
    /\ rc = 0
    /\ errors = 0
    /\ infos = << >>
    /\ cap = 0
    /\ idx = 0
    /\ loopEnd = 0
    /\ stale = FALSE
    /\ summaries = << >>
    /\ nAcq = 0 /\ nRel = 0 /\ nAssert = 0 /\ nFail = 0 /\ nReg = 0 /\ nDelete = 0
    /\ called = << >>
    /\ ops = 0
    /\ call = NoCall
    /\ lastOp = [name |-> "TEST", rc0 |-> 0, d |-> 0, ev |-> << >>]

InCode == pc \in {"Body", "Sub"}

\* test_reg.test_function(f), before run_tests or from the running code
Register(f) ==
    /\ pc \in {"Declared", "Body", "Sub"}
    /\ ops < MaxOps
    /\ LET s == test_function(Store, f)
       IN  /\ Commit(s, pc)
           /\ lastOp' = Op("test_function", s)
    /\ nReg' = nReg + 1
    /\ ops' = ops + 1
    /\ UNCHANGED <<idx, loopEnd, nAcq, nRel, nAssert, nFail>>
    /\ call' = NoCall
    /\ UNCHANGED called

\* main: run_tests starts timing the case body
StartRun ==
    /\ pc = "Declared"
    /\ pc' = "Body"
    /\ lastOp' = Op("run_tests", Store)
    /\ UNCHANGED <<rc, errors, infos, cap, idx, loopEnd, stale, summaries,
                   nAcq, nRel, nAssert, nFail, nReg, nDelete, ops>>
    /\ call' = NoCall
    /\ UNCHANGED called

\* ASSERT_EQ .. ASSERT_LEQ, or test_reg.assert(type, a, b)
AssertStmt(type, a, b) ==
    /\ InCode
    /\ ops < MaxOps
    /\ LET s == assert(Store, type, a, b)
       IN  /\ Commit(s, pc)
           /\ lastOp' = Op("assert", s)
    /\ nAssert' = IF type \in Comparisons THEN nAssert + 1 ELSE nAssert
    /\ nFail' = IF type \in Comparisons /\ ~Holds(type, a, b) THEN nFail + 1 ELSE nFail
    /\ ops' = ops + 1
    /\ UNCHANGED <<idx, loopEnd, nAcq, nRel, nReg, called>>

Assertion(type, a, b) ==
    /\ AssertStmt(type, a, b)
    /\ call' = NoCall

\* the same statement, with its arguments kept for the properties of assert
TracedAssertion(type, a, b) ==
    /\ AssertStmt(type, a, b)
    /\ call' = [type |-> type, a |-> a, b |-> b]

Alloc ==
    /\ InCode
    /\ ops < MaxOps
    /\ LET s == ALLOC(Store)
       IN  /\ Commit(s, pc)
           /\ lastOp' = Op("ALLOC", s)
    /\ nAcq' = nAcq + 1
    /\ ops' = ops + 1
    /\ UNCHANGED <<idx, loopEnd, nRel, nAssert, nFail, nReg>>
    /\ call' = NoCall
    /\ UNCHANGED called

Dealloc ==
    /\ InCode
    /\ ops < MaxOps
    /\ LET s == DEALLOC(Store)
       IN  /\ Commit(s, pc)
           /\ lastOp' = Op("DEALLOC", s)
    /\ nRel' = nRel + 1
    /\ ops' = ops + 1
    /\ UNCHANGED <<idx, loopEnd, nAcq, nAssert, nFail, nReg>>
    /\ call' = NoCall
    /\ UNCHANGED called

\* What `test.func != nullptr` can see: an indeterminate pointer is null or wild.
ReadFunc(node) == IF node.func = "Indet" THEN {"null", "wild"} ELSE {node.func}

\* The entries the range-for of run_tests still has to visit, from position i
\* to the cached end.
Pending(i, end) == i..end

\* The first entry from position i whose func is a registered sub-function,
\* end + 1 when there is none.
NextCall(buf, i, end) ==
    LET C == {j \in Pending(i, end) : buf[j].func \in Funcs}
    IN  IF C = {} THEN end + 1 ELSE CHOOSE j \in C : \A k \in C : j <= k

\* run_tests, lines 128-131, from position i up to the next call of a
\* sub-function: every entry before it is read; a wild pointer is called, and
\* after a reallocation (dead) each read is a read of freed memory.
Scan(buf, i, end, dead) ==
    LET n == NextCall(buf, i, end)
        wild == \E j \in i..(n - 1) : "wild" \in ReadFunc(buf[j])
        freed == dead /\ Pending(i, end) # {}
    IN  /\ \/ /\ pc' = IF n <= end THEN "Sub" ELSE "Ran"
              /\ idx' = n
           \/ /\ wild \/ freed
              /\ pc' = "Crashed"
              /\ idx' = i

\* run_tests, line 126: the body has returned; infos.back().ms_took = its time.
\* With an empty ledger back() is undefined: the store hits no entry, or faults.
\* Then the range-for starts, caching begin and end.
BodyReturn(d) ==
    /\ pc = "Body"
    /\ loopEnd' = Len(infos)
    /\ stale' = FALSE
    /\ IF infos = << >>
       THEN /\ infos' = infos
            /\ \/ Scan(infos', 1, Len(infos), FALSE)
               \/ pc' = "Crashed" /\ idx' = 0
       ELSE /\ infos' = [infos EXCEPT ![Len(infos)].ms_took = d]
            /\ Scan(infos', 1, Len(infos), FALSE)
    /\ lastOp' = [Op("body_timed", emit(Store, "back")) EXCEPT !.d = d]
    /\ UNCHANGED <<rc, errors, cap, summaries,
                   nAcq, nRel, nAssert, nFail, nReg, nDelete, ops>>
    /\ call' = NoCall
    /\ UNCHANGED called

\* run_tests, line 130: the sub-function has returned; test.ms_took = its time.
\* After a reallocation `test` dangles: the store is lost, or faults.
SubReturn(d) ==
    /\ pc = "Sub"
    /\ IF stale
       THEN /\ infos' = infos
            /\ \/ Scan(infos', idx + 1, loopEnd, TRUE)
               \/ pc' = "Crashed" /\ idx' = idx
       ELSE /\ infos' = [infos EXCEPT ![idx].ms_took = d]
            /\ Scan(infos', idx + 1, loopEnd, FALSE)
    /\ called' = Append(called, [at |-> idx, d |-> d])
    /\ lastOp' = [Op("sub_timed", emit(Store, "store")) EXCEPT !.d = d]
    /\ UNCHANGED <<rc, errors, cap, loopEnd, stale, summaries,
                   nAcq, nRel, nAssert, nFail, nReg, nDelete, ops>>
    /\ call' = NoCall

\* ~test at process exit
Teardown ==
    /\ pc = "Ran"
    /\ LET s == destructor(Store)
       IN  /\ Commit(s, "Completed")
           /\ lastOp' = Op("~test", s)
    /\ UNCHANGED <<idx, loopEnd, nAcq, nRel, nAssert, nFail, nReg, ops>>
    /\ call' = NoCall
    /\ UNCHANGED called

Next ==
    \/ \E f \in Funcs : Register(f)
    \/ StartRun
    \/ \E type \in test_types, a \in Vals, b \in Vals : Assertion(type, a, b)
    \/ Alloc
    \/ Dealloc
    \/ \E d \in Durs : BodyReturn(d)
    \/ \E d \in Durs : SubReturn(d)
    \/ Teardown

Spec == Init /\ [][Next]_vars

\* A case whose body is made of assertions, ALLOCs and DEALLOCs, the arguments
\* of each assertion kept in `call`.
NextAsserts ==
    \/ StartRun
    \/ \E type \in test_types, a \in Vals, b \in Vals : TracedAssertion(type, a, b)
    \/ Alloc
    \/ Dealloc
    \/ \E d \in Durs : BodyReturn(d)
    \/ Teardown

SpecAsserts == Init /\ [][NextAsserts]_vars

\* ------------------------------------------------------------------ properties
\* The states of section 4.3, read off the position of the process.
State ==
    CASE pc = "Declared"              -> "Declared"
      [] pc \in {"Body", "Sub", "Ran"} -> "Running"
      [] pc = "Completed"             -> "Completed"
      [] pc = "Aborted"               -> "Aborted"
      [] OTHER                        -> "None"

Count(kinds) == Cardinality({i \in DOMAIN infos : infos[i].result \in kinds})

GuardOutput == <<"check", "put_log", "[CRITICAL]", "line", "[SUMMARY]", "abort">>

\* What an assertion is specified to record.
Predicate(type, a, b) ==
    \/ type = "Eq"   /\ a = b
    \/ type = "UnEq" /\ a # b
    \/ type = "Gt"   /\ a > b
    \/ type = "Lt"   /\ a < b
    \/ type = "GEq"  /\ a >= b
    \/ type = "LEq"  /\ a <= b

FailureText ==
    [Eq   |-> "Given values are not equal, expected equal",
     UnEq |-> "Given values are equal, expected not equal",
     Gt   |-> "Given values are not greater, expected greater",
     Lt   |-> "Given values are greater, expected not greater",
     GEq  |-> "Given values are not greater or equal, expected greater or equal",
     LEq  |-> "Given values are greater or equal, expected not greater or equal"]

\* C1: for every pair (a, b) and each of the six assertion operations, the
\* ledger entry the call appends is Success with "OK" exactly when the
\* operation's predicate holds for (a, b), and otherwise Error with that
\* operation's failure message.
C1_AssertionOutcome ==
    call.type \in Comparisons =>
        /\ lastOp.name = "assert"
        /\ Len(infos) = nAssert + nReg
        /\ IF Predicate(call.type, call.a, call.b)
           THEN back(infos).result = "Success" /\ back(infos).data = "OK"
           ELSE back(infos).result = "Error" /\ back(infos).data = FailureText[call.type]

\* C1 witness: assert_gt on a pair that is not greater has recorded its Error,
\* after an assertion that passed.
C1_Witness ==
    /\ call = [type |-> "Gt", a |-> 0, b |-> 1]
    /\ Len(infos) >= 2
    /\ back(infos).result = "Error"
    /\ back(infos).data = "Given values are not greater, expected greater"
    /\ infos[Len(infos) - 1].result = "Success"
    /\ infos[Len(infos) - 1].data = "OK"

\* C2: after every operation the error tally equals the number of ledger
\* entries whose result is Error or Critical, and the summary printed by a
\* guard violation reports that number.
C2_TallyCountsErrorsAndCriticals ==
    /\ errors = Count({"Error", "Critical"})
    /\ pc = "Aborted" => back(summaries) = Count({"Error", "Critical"})

\* C3: a DEALLOC executed with the counter at 0 takes it to -1, records exactly
\* one Critical entry with the RC message, then prints the summary, then
\* aborts, in that order, whatever came before.
C3_ReleaseAtZeroAborts ==
    (lastOp.name = "DEALLOC" /\ lastOp.rc0 = 0) =>
        /\ rc = -1
        /\ pc = "Aborted"
        /\ back(infos).result = "Critical"
        /\ back(infos).data = "(RC < 0) Deallocating not allocated value"
        /\ Count({"Critical"}) = 1
        /\ lastOp.ev = <<"dec">> \o GuardOutput
        /\ Len(summaries) = 1
        /\ nDelete = nRel - 1

\* C3 witness: acquire x, release x, release x, after an assertion.
C3_Witness ==
    /\ lastOp.name = "DEALLOC" /\ lastOp.rc0 = 0
    /\ nAcq = 1 /\ nRel = 2 /\ nAssert = 1
    /\ pc = "Aborted"

\* C4: while no prefix of the ALLOC/DEALLOC sequence has more releases than
\* acquires the guard does not fire, and after each operation the counter is
\* the number of acquires minus the number of releases.  (The run stops at the
\* first prefix with more releases, so acquires >= releases now means every
\* prefix was balanced.)
C4_BalancedNeverFires ==
    /\ rc = nAcq - nRel
    /\ nAcq >= nRel =>
          /\ pc # "Aborted"
          /\ Count({"Critical"}) = 0
          /\ lastOp.name \in {"ALLOC", "DEALLOC"} => "abort" \notin Range(lastOp.ev)

\* C4 witness: acquire, acquire, release, release has left the counter at 0.
C4_Witness ==
    /\ nAcq = 2 /\ nRel = 2 /\ rc = 0 /\ ops = 4
    /\ lastOp.name = "DEALLOC" /\ lastOp.rc0 = 1
    /\ pc = "Body"

\* C5: the counter is never negative in a state from which the case goes on
\* (before an assertion, an acquire, a release, a sub-function, the teardown,
\* and after a normal summary); it is negative only once the guard has
\* recorded the Critical entry, printed the summary and aborted.
C5_CounterNonNegative ==
    /\ pc # "Aborted" => rc >= 0
    /\ rc < 0 =>
          /\ pc = "Aborted"
          /\ back(infos).result = "Critical"
          /\ Len(lastOp.ev) >= 6
          /\ SubSeq(lastOp.ev, Len(lastOp.ev) - 5, Len(lastOp.ev)) = GuardOutput

\* C5 witness: a release has run and the case goes on with the counter at 0.
C5_Witness ==
    /\ lastOp.name = "DEALLOC" /\ lastOp.rc0 = 1
    /\ rc = 0 /\ pc \in {"Body", "Sub"}

\* C6: a failing assertion is not fatal: the case is still running after it,
\* the statements that follow it can still be executed, and the case is
\* Aborted only with a negative counter.
C6_FailuresNotFatal ==
    /\ lastOp.name = "assert" => pc \in {"Body", "Sub"} /\ State = "Running"
    /\ (nFail > 0 /\ pc \in {"Body", "Sub"} /\ ops < MaxOps) =>
          /\ ENABLED Alloc
          /\ ENABLED Dealloc
          /\ ENABLED (\E type \in Comparisons, a \in Vals, b \in Vals : Assertion(type, a, b))
    /\ pc = "Aborted" => rc < 0 /\ lastOp.name = "DEALLOC"

\* C6 witness: two assertions have failed one after the other, then an acquire ran.
C6_Witness ==
    /\ nFail = 2 /\ errors = 2 /\ nAcq = 1
    /\ lastOp.name = "ALLOC"
    /\ pc = "Body"

\* C7: in a run with no guard violation the error tally is the number of
\* failing assertions so far, whatever passing assertions are interleaved, and
\* the summary reports that number.
C7_TallyIsFailures ==
    pc # "Aborted" =>
        /\ errors = nFail
        /\ Count({"Error"}) = nFail
        /\ pc = "Completed" => summaries = <<nFail>>

\* C7 witness: one passing and one failing assertion, summary Error/s: 1.
C7_Witness ==
    /\ pc = "Completed"
    /\ nAssert = 2 /\ nFail = 1
    /\ infos[1].result = "Success" /\ infos[2].result = "Error"
    /\ summaries = <<1>>

\* C8: every assert with one of the six kinds appends exactly one entry and
\* draws exactly one outcome, every test_function appends exactly one entry:
\* in every non-aborted state the ledger length is the number of assertions
\* issued plus the number of sub-functions registered.
C8_OneEntryPerCall ==
    /\ pc # "Aborted" => Len(infos) = nAssert + nReg
    /\ lastOp.name = "assert" =>
          \/ lastOp.ev = << >>
          \/ /\ Len(lastOp.ev) = 3
             /\ lastOp.ev[1] = "put_log"
             /\ lastOp.ev[2] \in {"[SUCCESS]", "[FAILED]"}
             /\ lastOp.ev[3] = "line"
    /\ lastOp.name = "test_function" => lastOp.ev = << >> /\ back(infos).func \in Funcs

\* C8 witness: a failing LessOrEqual after a registration.
C8_Witness ==
    /\ lastOp.name = "assert"
    /\ nReg = 1 /\ nAssert = 2
    /\ back(infos).data = "Given values are greater or equal, expected not greater or equal"
    /\ pc = "Body"

Before(ev, x, y) == \A i \in DOMAIN ev : ev[i] = y => \E j \in 1..(i - 1) : ev[j] = x
After(ev, x, y)  == \A i \in DOMAIN ev : ev[i] = y => \E j \in (i + 1)..Len(ev) : ev[j] = x

\* C9 as stated: the guard check runs before the increment of every acquire
\* and before the decrement of every release, and once more at teardown.
C9_CheckBeforeEveryMutation ==
    /\ Before(lastOp.ev, "check", "inc")
    /\ Before(lastOp.ev, "check", "dec")
    /\ pc = "Completed" => lastOp.ev = <<"check", "[SUMMARY]">>

\* C9 amended: the guard check runs before the increment of every acquire and
\* after the decrement of every release, and once more at teardown.
C9_CheckBeforeAcquireAfterRelease ==
    /\ lastOp.name = "ALLOC" =>
          /\ Before(lastOp.ev, "check", "inc")
          /\ "inc" \in Range(lastOp.ev)
    /\ lastOp.name = "DEALLOC" =>
          /\ lastOp.ev[1] = "dec" /\ lastOp.ev[2] = "check"
          /\ After(lastOp.ev, "check", "dec")
          /\ ~Before(lastOp.ev, "check", "dec")
    /\ pc = "Completed" => lastOp.ev = <<"check", "[SUMMARY]">>

\* C9 witness: a release that did not abort, after an acquire.
C9_Witness ==
    /\ lastOp.name = "DEALLOC" /\ lastOp.rc0 = 1
    /\ lastOp.ev = <<"dec", "check", "delete">>
    /\ pc = "Body"

\* C10: the case is Declared, then Running, then Completed, or else Aborted;
\* Aborted only by a guard violation; a run whose body and sub-functions
\* return ends in Completed or Aborted.
C10_DeclaredRunningCompletedOrAborted ==
    /\ State \in {"Declared", "Running", "Completed", "Aborted"}
    /\ pc = "Aborted" => rc < 0 /\ back(infos).result = "Critical"

\* C11: on normal scope exit the final guard check comes first and the summary
\* second; a normally completing case never prints its summary before that check.
C11_FinalCheckThenSummary ==
    /\ lastOp.name = "~test" =>
          /\ lastOp.ev[1] = "check"
          /\ Before(lastOp.ev, "check", "[SUMMARY]")
    /\ pc = "Completed" =>
          /\ lastOp.name = "~test"
          /\ lastOp.ev = <<"check", "[SUMMARY]">>
          /\ Len(summaries) = 1

\* C11 witness: a case with an assertion, an acquire and a release has completed.
C11_Witness ==
    /\ pc = "Completed"
    /\ lastOp.name = "~test"
    /\ nAssert = 1 /\ nAcq = 1 /\ nRel = 1

\* C12: the same assertion (same kind, same operands) issued twice in a row
\* appends two entries with the same result and the same message, whatever
\* the ledger, the tally and the counter were before.
C12_SameAssertionSameOutcome ==
    [][(call.type \in Comparisons /\ call' = call) =>
          /\ Len(infos') = Len(infos) + 1
          /\ back(infos').result = back(infos).result
          /\ back(infos').data = back(infos).data]_vars

\* C12 witness: assert_leq(1, 0) twice in a row after an acquire (with operands
\* in 0..1 no other pair fails LessOrEqual).
C12_Witness ==
    /\ call = [type |-> "LEq", a |-> 1, b |-> 0]
    /\ nAcq = 1
    /\ Len(infos) = 2
    /\ infos[1].result = "Error" /\ infos[1].data = FailureText["LEq"]
    /\ infos[2].result = "Error" /\ infos[2].data = FailureText["LEq"]

\* C13: once the guard has aborted the case nothing more runs: no step
\* follows, the delete after the violating release was not executed, no
\* entry, tally or counter change follows the Critical record, and no
\* teardown check or summary is made.
C13_NothingAfterAbort ==
    pc = "Aborted" =>
        /\ ~ENABLED Next
        /\ lastOp.name = "DEALLOC"
        /\ lastOp.ev[Len(lastOp.ev)] = "abort"
        /\ "delete" \notin Range(lastOp.ev)
        /\ nDelete = nRel - 1
        /\ rc = -1
        /\ errors = nFail
        /\ Len(infos) = nAssert + nReg + 1
        /\ Len(summaries) = 1

\* C13 witness: the guard aborted a case with a registered sub-function that never ran.
C13_Witness ==
    /\ pc = "Aborted"
    /\ nReg = 1 /\ nAssert = 1
    /\ called = << >>

Registered == {i \in DOMAIN infos : infos[i].func \in Funcs}

\* C14: when run_tests has returned, every sub-function registered via
\* test_function has been executed exactly once, in registration order, and
\* its own ledger entry holds the duration measured for it.
C14_EveryRegisteredRunOnce ==
    pc \in {"Ran", "Completed"} =>
        /\ Len(called) = Cardinality(Registered)
        /\ \A i \in Registered : \E k \in DOMAIN called :
              called[k].at = i /\ infos[i].ms_took = called[k].d
        /\ \A k \in DOMAIN called : \A l \in DOMAIN called :
              k < l => called[k].at < called[l].at

\* C15: run_tests writes the time of the primary body into the most recently
\* appended ledger entry, for every body, one that leaves the ledger empty
\* included, and changes no other entry's duration.
C15_BodyTimeInLastEntry ==
    lastOp.name = "body_timed" =>
        /\ infos # << >>
        /\ back(infos).ms_took = lastOp.d
        /\ \A i \in 1..(Len(infos) - 1) : infos[i].ms_took = 0

\* C16: the ledger is append-only and in insertion order: its length never
\* decreases, no entry is removed or moved, and the result and message of an
\* entry never change once appended (only its duration may).
C16_LedgerAppendOnly ==
    [][/\ Len(infos') >= Len(infos)
       /\ \A i \in DOMAIN infos :
             /\ infos'[i].result = infos[i].result
             /\ infos'[i].data = infos[i].data
             /\ infos'[i].func = infos[i].func]_vars

\* C16 witness: a completed case with three entries, one of them back-filled.
C16_Witness ==
    /\ pc = "Completed"
    /\ Len(infos) = 3
    /\ nAssert >= 1 /\ nReg >= 1
    /\ \E i \in DOMAIN infos : infos[i].ms_took # 0

\* C17: a call of assert with the reserved kind MemLeak appends no entry,
\* prints nothing and leaves the tally and the counter as they were.
C17_MemLeakNoOp ==
    [][call'.type = "MemLeak" =>
          /\ infos' = infos
          /\ errors' = errors
          /\ rc' = rc
          /\ summaries' = summaries
          /\ lastOp'.ev = << >>
          /\ pc' = pc]_vars

\* C17 witness: assert(MemLeak, ..) called with an entry, a tally and a counter in place.
C17_Witness ==
    /\ call.type = "MemLeak"
    /\ Len(infos) = 1 /\ errors = 1 /\ rc = 1
    /\ lastOp.name = "assert"

Terminated == pc \in {"Completed", "Aborted", "Crashed"}

\* C18: every terminating run has printed the summary exactly once, and none
\* is printed before the run terminates.
C18_SummaryExactlyOnce ==
    Len(summaries) = IF Terminated THEN 1 ELSE 0

\* C19: with the counter changed only by ALLOC and DEALLOC the guard fails
\* only at the check after a DEALLOC's decrement; the check before an ALLOC's
\* increment and the final check at teardown find the counter >= 0 and
\* record nothing.
C19_GuardFailsOnlyAfterRelease ==
    /\ lastOp.name \in {"ALLOC", "~test"} =>
          /\ lastOp.rc0 >= 0
          /\ lastOp.ev[1] = "check"
          /\ Range(lastOp.ev) \cap {"put_log", "[CRITICAL]", "abort"} = {}
    /\ Count({"Critical"}) > 0 =>
          /\ lastOp.name = "DEALLOC"
          /\ lastOp.ev[1] = "dec" /\ lastOp.ev[2] = "check" /\ lastOp.ev[3] = "put_log"

\* C19 witness: the check of an ALLOC that follows an acquire and a release.
C19_Witness ==
    /\ lastOp.name = "ALLOC"
    /\ lastOp.rc0 = 0
    /\ nAcq = 2 /\ nRel = 1

\* C20: a case torn down with the counter strictly positive completes
\* normally: the final check records nothing, the tally is unchanged, the
\* case is Completed and the summary is printed.
C20_LeakCompletesNormally ==
    (lastOp.name = "~test" /\ lastOp.rc0 > 0) =>
        /\ pc = "Completed"
        /\ rc = lastOp.rc0
        /\ lastOp.ev = <<"check", "[SUMMARY]">>
        /\ Len(infos) = nAssert + nReg
        /\ Count({"Critical"}) = 0
        /\ errors = nFail
        /\ summaries = <<errors>>

\* C20 witness: two acquires never released and one failed assertion, completed.
C20_Witness ==
    /\ pc = "Completed"
    /\ rc = 2 /\ nAcq = 2 /\ nRel = 0
    /\ nFail = 1

====
